---- MODULE Spec2Model ----
(***************************************************************************)
(* Order/offer negotiation of sham-truck-backend: the Express handlers of  *)
(* OrderController.ts and OfferController.ts run as concurrent requests    *)
(* against the MongoDB collections Order, Offer and Notification and       *)
(* publish Socket.IO events.                                               *)
(*                                                                         *)
(* One step of a request is one awaited store call together with the       *)
(* synchronous code that follows it up to the next awaited store call.     *)
(* An awaited read whose result only fills an event or response payload    *)
(* is folded into the step of the next store call of the same handler.     *)
(***************************************************************************)
EXTENDS Integers, Sequences, FiniteSets, Bags, TLC

\* ------------------------------------------------------------------ bounds
NumSlots == 2
MaxOrders == 1
MaxOffers == 2
MaxRejects == 1
MaxReads == 1
MaxUpdates == 1
MaxRings == 1
MaxMarks == 2
MaxMarkAlls == 1
MaxNoteDeletes == 1
MaxLists == 1
MaxLedgerWrites == 2
MaxOrderDeletes == 1
MaxStoreErrors == 1
MaxConnects == 2
MaxJoins == 2

\* ------------------------------------------------------------ fixed world
Routers == {"r1", "r2"}
Drivers == {"d1", "d2", "d3"}
NoId == "none"
Vehicles == {"v1", "v2", "v3"}
MalformedVehicle == "bad"
VehicleInputs == {"v1", "v9", MalformedVehicle}
VehicleCategory == ("v1" :> "A") @@ ("v2" :> "A") @@ ("v3" :> "B")
DriverVehicle == ("d1" :> "v1") @@ ("d2" :> "v2") @@ ("d3" :> "v3")
Caller(id) == [id |-> id, role |-> IF id \in Routers THEN "router" ELSE "driver"]
OrderCallers == {Caller("r1"), Caller("d1")}
OfferCallers == {Caller("d1"), Caller("d2"), Caller("r1")}
AcceptCallers == {Caller("r1"), Caller("r2"), Caller("d1")}
RejectCallers == {Caller("r1")}
ReadCallers == {Caller("r1"), Caller("r2"), Caller("d1")}
UpdateCallers == {Caller("r1")}
UpdateStatuses == {"Ended", "Pending"}
RingCallers == {Caller("r1"), Caller("d1"), [id |-> "r1", role |-> "user"]}
MarkCallers == {Caller("r1")}
DeleteCallers == {Caller("r1")}
LedgerCallers == {Caller("r1"), Caller("d1"), [id |-> "r1", role |-> "user"]}
Prices == {100, 120}
InvalidId == -1
Slots == 1 .. NumSlots

OfferStatuses == {"Accepted", "Rejected", "Pending", "Expired"}
OrderStatuses == {"Active", "Ended", "Pending", "Offered"}
NotificationTypes == {"new_offer", "offer_accepted", "offer_rejected", "order_created",
                      "order_updated", "order_completed", "ring", "new_order_available"}

VARIABLES orders, offers, notifications, events, req, orderSeq, offerSeq, nRejects, nReads, calls, sockets

vars == <<orders, offers, notifications, events, req, orderSeq, offerSeq, nRejects, nReads, calls, sockets>>

\* ---------------------------------------------------------------- helpers
NoOffer == [_id |-> 0, order_id |-> 0, driver_id |-> NoId, price |-> 0, status |-> "none"]

NoNote == [user_id |-> NoId, driver_id |-> NoId, order_id |-> 0, type |-> "none", is_read |-> FALSE]

Idle == [kind |-> "idle", pc |-> "idle", id |-> NoId, role |-> "none", arg |-> 0,
         vehicle |-> "none", price |-> 0, offer |-> NoOffer, customer |-> NoId,
         rejected |-> <<>>, found |-> <<>>, seen |-> {}, status |-> 0, msg |-> "none",
         wrote |-> FALSE, raced |-> FALSE, note |-> NoNote,
         total |-> 0, unread |-> 0]

Free(s) == req[s].pc \in {"idle", "done"}

\* A new request takes the lowest free slot (slots are interchangeable).
Arrive(s) == Free(s) /\ \A t \in Slots : t < s => ~Free(t)

InFlight(s) == ~Free(s)

Begin(kind, c) == [Idle EXCEPT !.kind = kind, !.id = c.id, !.role = c.role]

\* The response of a handler. A success keeps what the handler answered with;
\* a failure keeps the handler's name, the status code and which of the
\* handler's error messages was sent.
Succeed(r, code) == [r EXCEPT !.pc = "done", !.status = code, !.rejected = <<>>]

Fail(r, code, msg) == [Idle EXCEPT !.kind = r.kind, !.pc = "done", !.status = code, !.msg = msg]

OrderById(id) == {o \in orders : o._id = id}

OfferById(id) == {f \in offers : f._id = id}

RECURSIVE SortById(_)
SortById(S) ==
    IF S = {} THEN <<>>
    ELSE LET m == CHOOSE x \in S : \A y \in S : x._id <= y._id
         IN <<m>> \o SortById(S \ {m})

Notif(user, driver, order, type) ==
    [user_id |-> user, driver_id |-> driver, order_id |-> order, type |-> type, is_read |-> FALSE]

ValidNotification(n) == n.type \in NotificationTypes

Insert(B, n) == B (+) SetToBag({n})

RECURSIVE InsertAll(_, _)
InsertAll(B, ns) == IF ns = <<>> THEN B ELSE InsertAll(Insert(B, Head(ns)), Tail(ns))

Event(room, id, name, order) == [room |-> room, to |-> id, name |-> name, order |-> order]

\* Requests served so far by the handlers whose number of calls is bounded.
NoCalls == [updateOrder |-> 0, sendRing |-> 0, markAsRead |-> 0, markAllAsRead |-> 0,
            deleteNotification |-> 0, getNotifications |-> 0, deleteOrder |-> 0, storeError |-> 0,
            connection |-> 0, join |-> 0]

\* ---------------------------------------------------------------- gateway
\* Socket.IO clients; a client that reconnects gets a new socket.
Clients == {"k1", "k2"}

\* A socket: whether it is connected, the rooms the adapter holds for it, the
\* events it received, and (history) the rooms it asked to join since it
\* connected and did not leave.
NoSocket == [up |-> FALSE, rooms |-> {}, joined |-> {}, inbox |-> {}]

\* The room name: `user-<id>`, `driver-<id>`, `order-<id>`, `order-offers-<id>`.
Room(kind, id, order) == [room |-> kind, to |-> id, order |-> order]

\* The room an event is emitted to.
Addr(e) == Room(e.room, e.to, IF e.room = "order" THEN e.order ELSE 0)

\* Variant: every emit is io.emit(...), to all connected sockets.
Deliver_Broadcast(S, X) ==
    [k \in Clients |-> IF S[k].up THEN [S[k] EXCEPT !.inbox = @ \cup X] ELSE S[k]]

\* io.to(room).emit(...) reaches the connected sockets that are in the room,
\* io.emit(...) every connected socket.
Deliver(S, X) ==
    [k \in Clients |->
        IF S[k].up
        THEN [S[k] EXCEPT !.inbox = @ \cup {e \in X : e.room = "all" \/ Addr(e) \in S[k].rooms}]
        ELSE S[k]]

\* The emits of one handler step.
Publish(X) ==
    /\ events' = events \cup X
    /\ sockets' = Deliver(sockets, X)

Init ==
    /\ orders = {}
    /\ offers = {}
    /\ notifications = EmptyBag
    /\ events = {}
    /\ req = [s \in Slots |-> Idle]
    /\ orderSeq = 0
    /\ offerSeq = 0
    /\ nRejects = 0
    /\ nReads = 0
    /\ calls = NoCalls
    /\ sockets = [k \in Clients |-> NoSocket]

\* ------------------------------------------------------------ createOrder
\* Requests of a kind that are in flight before their insert.
Creating(kind) == Cardinality({s \in Slots : req[s].kind = kind /\ req[s].pc \in {"findExisting", "create"}})

\* Variant: drivers are matched on the vehicle document instead of its category.
MatchingDrivers_ByVehicle(vehicle) ==
    {d \in Drivers : DriverVehicle[d] = vehicle}

MatchingDrivers(vehicle) ==
    {d \in Drivers : DriverVehicle[d] \in Vehicles
                      /\ VehicleCategory[DriverVehicle[d]] = VehicleCategory[vehicle]}

\* Variant: the vehicle is not looked up before the order is created.
createOrder_validate_NoLookup(s, c, vehicle) ==
    /\ Arrive(s)
    /\ LET r == [Begin("createOrder", c) EXCEPT !.vehicle = vehicle]
       IN IF vehicle = MalformedVehicle THEN req' = [req EXCEPT ![s] = Fail(r, 400, "validation")]
          ELSE IF c.role # "router" THEN req' = [req EXCEPT ![s] = Fail(r, 403, "role")]
          ELSE /\ orderSeq + Creating("createOrder") < MaxOrders
               /\ req' = [req EXCEPT ![s] = [r EXCEPT !.pc = "create"]]
    /\ UNCHANGED <<orders, offers, notifications, events, sockets, orderSeq, offerSeq, nRejects, nReads, calls>>

\* validation, role gate and Vehicle.findById
createOrder_validate(s, c, vehicle) ==
    /\ Arrive(s)
    /\ LET r == [Begin("createOrder", c) EXCEPT !.vehicle = vehicle]
       IN IF vehicle = MalformedVehicle THEN req' = [req EXCEPT ![s] = Fail(r, 400, "validation")]
          ELSE IF c.role # "router" THEN req' = [req EXCEPT ![s] = Fail(r, 403, "role")]
          ELSE IF vehicle \notin Vehicles THEN req' = [req EXCEPT ![s] = Fail(r, 400, "invalid_vehicle")]
          ELSE /\ orderSeq + Creating("createOrder") < MaxOrders
               /\ req' = [req EXCEPT ![s] = [r EXCEPT !.pc = "create"]]
    /\ UNCHANGED <<orders, offers, notifications, events, sockets, orderSeq, offerSeq, nRejects, nReads, calls>>

\* Order.create
createOrder_create(s) ==
    /\ req[s].kind = "createOrder" /\ req[s].pc = "create"
    /\ orderSeq' = orderSeq + 1
    /\ orders' = orders \cup {[_id |-> orderSeq + 1, customer_id |-> req[s].id,
                               vehicle_type |-> req[s].vehicle, status |-> "Pending"]}
    /\ req' = [req EXCEPT ![s] = [@ EXCEPT !.pc = "notifyRouter", !.arg = orderSeq + 1, !.wrote = TRUE]]
    /\ UNCHANGED <<offers, notifications, events, sockets, offerSeq, nRejects, nReads, calls>>

\* Variant: the router's notification is written without its user_id.
createOrder_notifyRouter_NoUser(s) ==
    /\ req[s].kind = "createOrder" /\ req[s].pc = "notifyRouter"
    /\ notifications' = Insert(notifications, Notif(NoId, NoId, req[s].arg, "order_created"))
    /\ req' = [req EXCEPT ![s] = [@ EXCEPT !.pc = "notifyDrivers"]]
    /\ UNCHANGED <<orders, offers, events, sockets, orderSeq, offerSeq, nRejects, nReads, calls>>

\* Notification.create for the creating router
createOrder_notifyRouter(s) ==
    /\ req[s].kind = "createOrder" /\ req[s].pc = "notifyRouter"
    /\ LET n == Notif(req[s].id, NoId, req[s].arg, "order_created")
       IN IF ValidNotification(n)
          THEN /\ notifications' = Insert(notifications, n)
               /\ req' = [req EXCEPT ![s] = [@ EXCEPT !.pc = "notifyDrivers"]]
          ELSE /\ req' = [req EXCEPT ![s] = Fail(@, 500, "error")]
               /\ UNCHANGED notifications
    /\ UNCHANGED <<orders, offers, events, sockets, orderSeq, offerSeq, nRejects, nReads, calls>>

DriverNotifications(vehicle, order) ==
    {Notif(NoId, d, order, "new_order_available") : d \in MatchingDrivers(vehicle)}

\* Driver.find with the category match, then Notification.insertMany
createOrder_notifyDrivers(s) ==
    /\ req[s].kind = "createOrder" /\ req[s].pc = "notifyDrivers"
    /\ LET ns == DriverNotifications(req[s].vehicle, req[s].arg)
       IN notifications' = IF ns # {} /\ \A n \in ns : ValidNotification(n)
                           THEN notifications (+) SetToBag(ns)
                           ELSE notifications
    /\ req' = [req EXCEPT ![s] = [@ EXCEPT !.pc = "respond"]]
    /\ UNCHANGED <<orders, offers, events, sockets, orderSeq, offerSeq, nRejects, nReads, calls>>

CreateOrderEvents(r) ==
    {Event("all", NoId, "new-order-available", r.arg),
     Event("user", r.id, "order-created", r.arg),
     Event("user", r.id, "new-notification", r.arg)}
    \cup {Event("driver", d, "new-notification", r.arg) : d \in MatchingDrivers(r.vehicle)}

\* Order.findById for the response, the Socket.IO emits and the response
createOrder_respond(s) ==
    /\ req[s].kind = "createOrder" /\ req[s].pc = "respond"
    /\ Publish(CreateOrderEvents(req[s]))
    /\ req' = [req EXCEPT ![s] = IF OrderById(@.arg) = {} THEN Fail(@, 500, "error") ELSE Succeed(@, 201)]
    /\ UNCHANGED <<orders, offers, notifications, orderSeq, offerSeq, nRejects, nReads, calls>>

\* ------------------------------------------ createOrder, first API version
\* The handler of the same name in the first version of the API, which the
\* order routes use: any authenticated caller, notification through
\* createNotification.
\* ObjectId check and VehicleType.findById
createOrderV1_validate(s, c, vehicle) ==
    /\ Arrive(s)
    /\ LET r == [Begin("createOrderV1", c) EXCEPT !.vehicle = vehicle]
       IN IF vehicle \notin Vehicles THEN req' = [req EXCEPT ![s] = Fail(r, 400, "invalid_vehicle")]
          ELSE /\ orderSeq + Creating("createOrderV1") < MaxOrders
               /\ req' = [req EXCEPT ![s] = [r EXCEPT !.pc = "create"]]
    /\ UNCHANGED <<orders, offers, notifications, events, sockets, orderSeq, offerSeq, nRejects, nReads, calls>>

\* Order.create
createOrderV1_create(s) ==
    /\ req[s].kind = "createOrderV1" /\ req[s].pc = "create"
    /\ orderSeq' = orderSeq + 1
    /\ orders' = orders \cup {[_id |-> orderSeq + 1, customer_id |-> req[s].id,
                               vehicle_type |-> req[s].vehicle, status |-> "Pending"]}
    /\ req' = [req EXCEPT ![s] = [@ EXCEPT !.pc = "notify", !.arg = orderSeq + 1, !.wrote = TRUE]]
    /\ UNCHANGED <<offers, notifications, events, sockets, offerSeq, nRejects, nReads, calls>>

\* The emits of createNotification(data): one per field of data that is set.
NotificationEvents(n) ==
    (IF n.user_id # NoId THEN {Event("user", n.user_id, "new-notification", n.order_id)} ELSE {})
    \cup (IF n.driver_id # NoId THEN {Event("driver", n.driver_id, "new-notification", n.order_id)} ELSE {})
    \cup (IF n.order_id # 0 THEN {Event("order", NoId, "notification-created", n.order_id)} ELSE {})

\* Order.findById for the payload, io.emit('new-order') and, in
\* createNotification, Notification.create of { order_id, type: 'order_created' }
createOrderV1_notify(s) ==
    /\ req[s].kind = "createOrderV1" /\ req[s].pc = "notify"
    /\ LET n == Notif(NoId, NoId, req[s].arg, "order_created")
       IN /\ Publish({Event("all", NoId, "new-order", req[s].arg)})
          /\ IF ValidNotification(n)
             THEN /\ notifications' = Insert(notifications, n)
                  /\ req' = [req EXCEPT ![s] = [@ EXCEPT !.pc = "respond", !.note = n]]
             ELSE /\ req' = [req EXCEPT ![s] = Fail(@, 500, "error")]
                  /\ UNCHANGED notifications
    /\ UNCHANGED <<orders, offers, orderSeq, offerSeq, nRejects, nReads, calls>>

\* Notification.findById for the payload, the emits of createNotification and the response
createOrderV1_respond(s) ==
    /\ req[s].kind = "createOrderV1" /\ req[s].pc = "respond"
    /\ Publish(NotificationEvents(req[s].note))
    /\ req' = [req EXCEPT ![s] = Succeed(@, 201)]
    /\ UNCHANGED <<orders, offers, notifications, orderSeq, offerSeq, nRejects, nReads, calls>>

\* ------------------------------------------------------------ createOffer
\* validation, role gate and Order.findById
createOffer_findOrder(s, c, order_id, price) ==
    /\ Arrive(s)
    /\ LET r == [Begin("createOffer", c) EXCEPT !.arg = order_id, !.price = price]
       IN IF order_id = InvalidId \/ price < 0 THEN req' = [req EXCEPT ![s] = Fail(r, 400, "validation")]
          ELSE IF c.role # "driver" THEN req' = [req EXCEPT ![s] = Fail(r, 403, "role")]
          ELSE IF OrderById(order_id) = {} THEN req' = [req EXCEPT ![s] = Fail(r, 404, "order_not_found")]
          ELSE /\ offerSeq + Creating("createOffer") < MaxOffers
               /\ LET order == CHOOSE o \in OrderById(order_id) : TRUE
                  IN req' = [req EXCEPT ![s] = [r EXCEPT !.pc = "findExisting",
                                                          !.customer = order.customer_id]]
    /\ UNCHANGED <<orders, offers, notifications, events, sockets, orderSeq, offerSeq, nRejects, nReads, calls>>

ExistingOffer(order_id, driver_id) ==
    {f \in offers : f.order_id = order_id /\ f.driver_id = driver_id}

\* Variant: the driver's earlier offer is not looked up.
createOffer_findExisting_NoCheck(s) ==
    /\ req[s].kind = "createOffer" /\ req[s].pc = "findExisting"
    /\ req' = [req EXCEPT ![s] = [@ EXCEPT !.pc = "create"]]
    /\ UNCHANGED <<orders, offers, notifications, events, sockets, orderSeq, offerSeq, nRejects, nReads, calls>>

\* Offer.findOne({ order_id, driver_id })
createOffer_findExisting(s) ==
    /\ req[s].kind = "createOffer" /\ req[s].pc = "findExisting"
    /\ req' = [req EXCEPT ![s] = IF ExistingOffer(@.arg, @.id) # {}
                                 THEN Fail(@, 400, "duplicate_offer")
                                 ELSE [@ EXCEPT !.pc = "create"]]
    /\ UNCHANGED <<orders, offers, notifications, events, sockets, orderSeq, offerSeq, nRejects, nReads, calls>>

\* Variant: the insert also sets the order's status to Offered.
createOffer_create_Offered(s) ==
    /\ req[s].kind = "createOffer" /\ req[s].pc = "create"
    /\ LET f == [_id |-> offerSeq + 1, order_id |-> req[s].arg, driver_id |-> req[s].id,
                 price |-> req[s].price, status |-> "Pending"]
       IN /\ offers' = offers \cup {f}
          /\ req' = [req EXCEPT ![s] = [@ EXCEPT !.pc = "notifyRouter", !.offer = f, !.wrote = TRUE]]
    /\ offerSeq' = offerSeq + 1
    /\ orders' = {IF o._id = req[s].arg THEN [o EXCEPT !.status = "Offered"] ELSE o : o \in orders}
    /\ UNCHANGED <<notifications, events, sockets, orderSeq, nRejects, nReads, calls>>

\* Offer.create
createOffer_create(s) ==
    /\ req[s].kind = "createOffer" /\ req[s].pc = "create"
    /\ LET f == [_id |-> offerSeq + 1, order_id |-> req[s].arg, driver_id |-> req[s].id,
                 price |-> req[s].price, status |-> "Pending"]
       IN /\ offers' = offers \cup {f}
          /\ req' = [req EXCEPT ![s] = [@ EXCEPT !.pc = "notifyRouter", !.offer = f, !.wrote = TRUE]]
    /\ offerSeq' = offerSeq + 1
    /\ UNCHANGED <<orders, notifications, events, sockets, orderSeq, nRejects, nReads, calls>>

\* Offer.findById of the new offer, then Notification.create for the order's router
createOffer_notifyRouter(s) ==
    /\ req[s].kind = "createOffer" /\ req[s].pc = "notifyRouter"
    /\ LET n == Notif(req[s].customer, NoId, req[s].arg, "new_offer")
       IN IF OfferById(req[s].offer._id) = {} \/ ~ValidNotification(n)
          THEN /\ req' = [req EXCEPT ![s] = Fail(@, 500, "error")]
               /\ UNCHANGED notifications
          ELSE /\ notifications' = Insert(notifications, n)
               /\ req' = [req EXCEPT ![s] = [@ EXCEPT !.pc = "notifyDriver"]]
    /\ UNCHANGED <<orders, offers, events, sockets, orderSeq, offerSeq, nRejects, nReads, calls>>

CreateOfferEvents(r) ==
    {Event("user", r.customer, "new-offer", r.arg),
     Event("user", r.customer, "new-notification", r.arg),
     Event("driver", r.id, "offer-created", r.arg),
     Event("driver", r.id, "new-notification", r.arg)}

\* Notification.create for the bidding driver, the Socket.IO emits and the response
createOffer_notifyDriver(s) ==
    /\ req[s].kind = "createOffer" /\ req[s].pc = "notifyDriver"
    /\ LET n == Notif(NoId, req[s].id, req[s].arg, "offer_created")
       IN IF ValidNotification(n)
          THEN /\ notifications' = Insert(notifications, n)
               /\ Publish(CreateOfferEvents(req[s]))
               /\ req' = [req EXCEPT ![s] = Succeed(@, 201)]
          ELSE /\ req' = [req EXCEPT ![s] = Fail(@, 500, "error")]
               /\ UNCHANGED <<notifications, events, sockets>>
    /\ UNCHANGED <<orders, offers, orderSeq, offerSeq, nRejects, nReads, calls>>

\* ------------------------------------------------------------ acceptOffer
\* Variant: the caller's role is not looked at.
acceptOffer_findOffer_AnyRole(s, c, offerId) ==
    /\ Arrive(s)
    /\ LET r == [Begin("acceptOffer", c) EXCEPT !.arg = offerId]
       IN req' = [req EXCEPT ![s] =
              IF offerId = InvalidId THEN Fail(r, 400, "invalid_id")
              ELSE IF OfferById(offerId) = {} THEN Fail(r, 404, "offer_not_found")
              ELSE [r EXCEPT !.pc = "findOrder", !.offer = CHOOSE f \in OfferById(offerId) : TRUE]]
    /\ UNCHANGED <<orders, offers, notifications, events, sockets, orderSeq, offerSeq, nRejects, nReads, calls>>

\* role gate, ObjectId check and Offer.findById
acceptOffer_findOffer(s, c, offerId) ==
    /\ Arrive(s)
    /\ LET r == [Begin("acceptOffer", c) EXCEPT !.arg = offerId]
       IN req' = [req EXCEPT ![s] =
              IF c.role # "router" THEN Fail(r, 403, "role")
              ELSE IF offerId = InvalidId THEN Fail(r, 400, "invalid_id")
              ELSE IF OfferById(offerId) = {} THEN Fail(r, 404, "offer_not_found")
              ELSE [r EXCEPT !.pc = "findOrder", !.offer = CHOOSE f \in OfferById(offerId) : TRUE]]
    /\ UNCHANGED <<orders, offers, notifications, events, sockets, orderSeq, offerSeq, nRejects, nReads, calls>>

\* Variant: the order is looked up by its id alone.
OwnedOrder_AnyCustomer(order_id, customer_id) ==
    {o \in orders : o._id = order_id}

OwnedOrder(order_id, customer_id) ==
    {o \in orders : o._id = order_id /\ o.customer_id = customer_id}

\* Accept requests that passed the Pending check on another offer of the same
\* order and have not written yet, while both offers are still Pending.
Rivals(s) ==
    {t \in Slots \ {s} :
        /\ req[t].kind = "acceptOffer" /\ req[t].pc = "save"
        /\ req[t].offer.order_id = req[s].offer.order_id
        /\ req[t].offer._id # req[s].offer._id
        /\ \E f \in OfferById(req[t].offer._id) : f.status = "Pending"
        /\ \E f \in OfferById(req[s].offer._id) : f.status = "Pending"}

\* Variant: the offer's status is not checked before it is accepted.
acceptOffer_findOrder_NoStatusCheck(s) ==
    /\ req[s].kind = "acceptOffer" /\ req[s].pc = "findOrder"
    /\ req' = IF OwnedOrder(req[s].offer.order_id, req[s].id) = {}
              THEN [req EXCEPT ![s] = Fail(@, 404, "order_not_owned")]
              ELSE [t \in Slots |->
                      IF t = s THEN [req[s] EXCEPT !.pc = "save", !.offer.status = "Accepted",
                                                   !.raced = (Rivals(s) # {})]
                      ELSE IF t \in Rivals(s) THEN [req[t] EXCEPT !.raced = TRUE]
                      ELSE req[t]]
    /\ UNCHANGED <<orders, offers, notifications, events, sockets, orderSeq, offerSeq, nRejects, nReads, calls>>

\* Order.findOne({ _id: offer.order_id, customer_id: id }) and the Pending check;
\* raced is a history flag: this request and a rival both passed the check.
acceptOffer_findOrder(s) ==
    /\ req[s].kind = "acceptOffer" /\ req[s].pc = "findOrder"
    /\ req' = IF OwnedOrder(req[s].offer.order_id, req[s].id) = {}
              THEN [req EXCEPT ![s] = Fail(@, 404, "order_not_owned")]
              ELSE IF req[s].offer.status # "Pending"
              THEN [req EXCEPT ![s] = Fail(@, 400, "not_pending")]
              ELSE [t \in Slots |->
                      IF t = s THEN [req[s] EXCEPT !.pc = "save", !.offer.status = "Accepted",
                                                   !.raced = (Rivals(s) # {})]
                      ELSE IF t \in Rivals(s) THEN [req[t] EXCEPT !.raced = TRUE]
                      ELSE req[t]]
    /\ UNCHANGED <<orders, offers, notifications, events, sockets, orderSeq, offerSeq, nRejects, nReads, calls>>

SetOfferStatus(S, ids, status) ==
    {IF f._id \in ids THEN [f EXCEPT !.status = status] ELSE f : f \in S}

\* Variant: offer-accepted is emitted together with the save.
acceptOffer_save_EmitFirst(s) ==
    /\ req[s].kind = "acceptOffer" /\ req[s].pc = "save"
    /\ IF OfferById(req[s].offer._id) = {}
       THEN /\ req' = [req EXCEPT ![s] = Fail(@, 500, "error")]
            /\ UNCHANGED <<offers, events, sockets>>
       ELSE /\ offers' = SetOfferStatus(offers, {req[s].offer._id}, req[s].offer.status)
            /\ Publish({Event("driver", req[s].offer.driver_id, "offer-accepted", req[s].offer.order_id)})
            /\ req' = [req EXCEPT ![s] = [@ EXCEPT !.pc = "updateMany", !.wrote = TRUE]]
    /\ UNCHANGED <<orders, notifications, orderSeq, offerSeq, nRejects, nReads, calls>>

\* offer.save(): writes the modified path status of the document with this _id
acceptOffer_save(s) ==
    /\ req[s].kind = "acceptOffer" /\ req[s].pc = "save"
    /\ IF OfferById(req[s].offer._id) = {}
       THEN /\ req' = [req EXCEPT ![s] = Fail(@, 500, "error")]
            /\ UNCHANGED offers
       ELSE /\ offers' = SetOfferStatus(offers, {req[s].offer._id}, req[s].offer.status)
            /\ req' = [req EXCEPT ![s] = [@ EXCEPT !.pc = "updateMany", !.wrote = TRUE]]
    /\ UNCHANGED <<orders, notifications, events, sockets, orderSeq, offerSeq, nRejects, nReads, calls>>

\* Variant: the filter lacks _id: { $ne: offer._id }.
Siblings_All(offer) == {f \in offers : f.order_id = offer.order_id}

Siblings(offer) == {f \in offers : f.order_id = offer.order_id /\ f._id # offer._id}

\* Offer.updateMany({ order_id, _id: { $ne } }, { status: 'Rejected' })
acceptOffer_updateMany(s) ==
    /\ req[s].kind = "acceptOffer" /\ req[s].pc = "updateMany"
    /\ offers' = SetOfferStatus(offers, {f._id : f \in Siblings(req[s].offer)}, "Rejected")
    /\ req' = [req EXCEPT ![s] = [@ EXCEPT !.pc = "activate"]]
    /\ UNCHANGED <<orders, notifications, events, sockets, orderSeq, offerSeq, nRejects, nReads, calls>>

SetOrderStatus(S, id, status) ==
    {IF o._id = id THEN [o EXCEPT !.status = status] ELSE o : o \in S}

\* Order.findByIdAndUpdate(offer.order_id, { status: 'Active' })
acceptOffer_activate(s) ==
    /\ req[s].kind = "acceptOffer" /\ req[s].pc = "activate"
    /\ orders' = SetOrderStatus(orders, req[s].offer.order_id, "Active")
    /\ req' = [req EXCEPT ![s] = [@ EXCEPT !.pc = "notifyAccepted"]]
    /\ UNCHANGED <<offers, notifications, events, sockets, orderSeq, offerSeq, nRejects, nReads, calls>>

\* the two reloads for the payloads, then Notification.create for the accepted driver
acceptOffer_notifyAccepted(s) ==
    /\ req[s].kind = "acceptOffer" /\ req[s].pc = "notifyAccepted"
    /\ LET n == Notif(NoId, req[s].offer.driver_id, req[s].offer.order_id, "offer_accepted")
       IN IF ValidNotification(n)
          THEN /\ notifications' = Insert(notifications, n)
               /\ req' = [req EXCEPT ![s] = [@ EXCEPT !.pc = "findRejected"]]
          ELSE /\ req' = [req EXCEPT ![s] = Fail(@, 500, "error")]
               /\ UNCHANGED notifications
    /\ UNCHANGED <<orders, offers, events, sockets, orderSeq, offerSeq, nRejects, nReads, calls>>

AcceptOfferEvents(r, rejectedDrivers) ==
    {Event("driver", r.offer.driver_id, "offer-accepted", r.offer.order_id),
     Event("user", r.id, "offer-accepted-confirmation", r.offer.order_id),
     Event("driver", r.offer.driver_id, "order-updated", r.offer.order_id),
     Event("user", r.id, "order-updated", r.offer.order_id),
     Event("driver", r.offer.driver_id, "new-notification", r.offer.order_id),
     Event("user", r.id, "new-notification", r.offer.order_id)}
    \cup {Event("driver", d, "offer-rejected", r.offer.order_id) : d \in rejectedDrivers}
    \cup {Event("driver", d, "new-notification", r.offer.order_id) : d \in rejectedDrivers}

\* Offer.find({ order_id, _id: { $ne } }); with no sibling the emits and the response follow
acceptOffer_findRejected(s) ==
    /\ req[s].kind = "acceptOffer" /\ req[s].pc = "findRejected"
    /\ LET found == SortById(Siblings(req[s].offer))
       IN IF found = <<>>
          THEN /\ Publish(AcceptOfferEvents(req[s], {}))
               /\ req' = [req EXCEPT ![s] = Succeed(@, 200)]
          ELSE /\ req' = [req EXCEPT ![s] = [@ EXCEPT !.pc = "notifyRejected", !.rejected = found,
                                                       !.found = found]]
               /\ UNCHANGED <<events, sockets>>
    /\ UNCHANGED <<orders, offers, notifications, orderSeq, offerSeq, nRejects, nReads, calls>>

\* one iteration of the loop over rejectedOffers; after the last one the emits and the response
acceptOffer_notifyRejected(s) ==
    /\ req[s].kind = "acceptOffer" /\ req[s].pc = "notifyRejected"
    /\ LET n == Notif(NoId, Head(req[s].rejected).driver_id, req[s].offer.order_id, "offer_rejected")
       IN IF ~ValidNotification(n)
          THEN /\ req' = [req EXCEPT ![s] = Fail(@, 500, "error")]
               /\ UNCHANGED <<notifications, events, sockets>>
          ELSE /\ notifications' = Insert(notifications, n)
               /\ IF Tail(req[s].rejected) = <<>>
                  THEN /\ Publish(AcceptOfferEvents(req[s], {req[s].found[i].driver_id : i \in DOMAIN req[s].found}))
                       /\ req' = [req EXCEPT ![s] = Succeed(@, 200)]
                  ELSE /\ req' = [req EXCEPT ![s] = [@ EXCEPT !.rejected = Tail(@)]]
                       /\ UNCHANGED <<events, sockets>>
    /\ UNCHANGED <<orders, offers, orderSeq, offerSeq, nRejects, nReads, calls>>

\* ------------------------------------------------------------ rejectOffer
\* Offer.findByIdAndUpdate(id, { status: 'Rejected' }) and the emit to the driver
rejectOffer_update(s, c, offerId) ==
    /\ Arrive(s)
    /\ LET r == [Begin("rejectOffer", c) EXCEPT !.arg = offerId]
       IN IF offerId = InvalidId
          THEN /\ req' = [req EXCEPT ![s] = Fail(r, 500, "error")]
               /\ UNCHANGED <<offers, events, sockets, nRejects>>
          ELSE IF OfferById(offerId) = {}
          THEN /\ req' = [req EXCEPT ![s] = Fail(r, 404, "offer_not_found")]
               /\ UNCHANGED <<offers, events, sockets, nRejects>>
          ELSE LET f == CHOOSE x \in OfferById(offerId) : TRUE
               IN /\ nRejects < MaxRejects
                  /\ nRejects' = nRejects + 1
                  /\ offers' = SetOfferStatus(offers, {offerId}, "Rejected")
                  /\ Publish({Event("driver", f.driver_id, "offer-rejected", f.order_id)})
                  /\ req' = [req EXCEPT ![s] =
                         IF OrderById(f.order_id) = {}
                         THEN Fail(r, 500, "error")
                         ELSE [r EXCEPT !.pc = "notify", !.wrote = TRUE,
                                        !.offer = [f EXCEPT !.status = "Rejected"]]]
    /\ UNCHANGED <<orders, notifications, orderSeq, offerSeq, nReads, calls>>

\* createNotification(rejectNotificationData) and the response
rejectOffer_notify(s) ==
    /\ req[s].kind = "rejectOffer" /\ req[s].pc = "notify"
    /\ LET n == Notif(NoId, req[s].offer.driver_id, req[s].offer.order_id, "offer_rejected")
       IN IF ValidNotification(n)
          THEN /\ notifications' = Insert(notifications, n)
               /\ Publish({Event("driver", n.driver_id, "new-notification", n.order_id),
                           Event("order", NoId, "notification-created", n.order_id)})
               /\ req' = [req EXCEPT ![s] = Succeed(@, 200)]
          ELSE /\ req' = [req EXCEPT ![s] = Fail(@, 500, "error")]
               /\ UNCHANGED <<notifications, events, sockets>>
    /\ UNCHANGED <<orders, offers, orderSeq, offerSeq, nRejects, nReads, calls>>

\* --------------------------------------------------------- getOrderOffers
\* role gate, ObjectId check and Order.findOne({ _id, customer_id })
getOrderOffers_findOrder(s, c, orderId) ==
    /\ Arrive(s)
    /\ LET r == [Begin("getOrderOffers", c) EXCEPT !.arg = orderId]
       IN IF c.role # "router" THEN req' = [req EXCEPT ![s] = Fail(r, 403, "role")] /\ UNCHANGED nReads
          ELSE IF orderId = InvalidId THEN req' = [req EXCEPT ![s] = Fail(r, 400, "invalid_id")] /\ UNCHANGED nReads
          ELSE IF OwnedOrder(orderId, c.id) = {}
          THEN req' = [req EXCEPT ![s] = Fail(r, 404, "order_not_owned")] /\ UNCHANGED nReads
          ELSE /\ nReads < MaxReads
               /\ nReads' = nReads + 1
               /\ req' = [req EXCEPT ![s] = [r EXCEPT !.pc = "find"]]
    /\ UNCHANGED <<orders, offers, notifications, events, sockets, orderSeq, offerSeq, nRejects, calls>>

\* Offer.find({ order_id }) and the response
getOrderOffers_find(s) ==
    /\ req[s].kind = "getOrderOffers" /\ req[s].pc = "find"
    /\ req' = [req EXCEPT ![s] =
              Succeed([@ EXCEPT !.seen = {<<f._id, f.status>> : f \in {x \in offers : x.order_id = req[s].arg}}], 200)]
    /\ UNCHANGED <<orders, offers, notifications, events, sockets, orderSeq, offerSeq, nRejects, nReads, calls>>

\* ------------------------------------------------------------ updateOrder
\* Order.findByIdAndUpdate(id, req.body, { runValidators: true }) with a body
\* that sets the status, the emit to the order's room and the response
updateOrder(s, c, orderId, status) ==
    /\ Arrive(s)
    /\ LET r == [Begin("updateOrder", c) EXCEPT !.arg = orderId]
       IN IF orderId = InvalidId \/ status \notin OrderStatuses
          THEN /\ req' = [req EXCEPT ![s] = Fail(r, 500, "error")]
               /\ UNCHANGED <<orders, events, sockets, calls>>
          ELSE IF OrderById(orderId) = {}
          THEN /\ req' = [req EXCEPT ![s] = Fail(r, 404, "order_not_found")]
               /\ UNCHANGED <<orders, events, sockets, calls>>
          ELSE /\ calls.updateOrder < MaxUpdates
               /\ calls' = [calls EXCEPT !.updateOrder = @ + 1]
               /\ orders' = SetOrderStatus(orders, orderId, status)
               /\ Publish({Event("order", NoId, "order-updated", orderId)})
               /\ req' = [req EXCEPT ![s] = Succeed([r EXCEPT !.wrote = TRUE], 200)]
    /\ UNCHANGED <<offers, notifications, orderSeq, offerSeq, nRejects, nReads>>

\* ------------------------------------------------------------ deleteOrder
\* Order.findByIdAndDelete(req.params.id)
deleteOrder_delete(s, c, orderId) ==
    /\ Arrive(s)
    /\ LET r == [Begin("deleteOrder", c) EXCEPT !.arg = orderId]
       IN IF orderId = InvalidId
          THEN /\ req' = [req EXCEPT ![s] = Fail(r, 500, "error")]
               /\ UNCHANGED <<orders, calls>>
          ELSE IF OrderById(orderId) = {}
          THEN /\ req' = [req EXCEPT ![s] = Fail(r, 404, "order_not_found")]
               /\ UNCHANGED <<orders, calls>>
          ELSE /\ calls.deleteOrder < MaxOrderDeletes
               /\ calls' = [calls EXCEPT !.deleteOrder = @ + 1]
               /\ orders' = orders \ OrderById(orderId)
               /\ req' = [req EXCEPT ![s] = [r EXCEPT !.pc = "deleteMany", !.wrote = TRUE]]
    /\ UNCHANGED <<offers, notifications, events, sockets, orderSeq, offerSeq, nRejects, nReads>>

\* Offer.deleteMany({ order_id }), the emit to the order's room and the response
deleteOrder_deleteMany(s) ==
    /\ req[s].kind = "deleteOrder" /\ req[s].pc = "deleteMany"
    /\ offers' = {f \in offers : f.order_id # req[s].arg}
    /\ Publish({Event("order", NoId, "order-deleted", req[s].arg)})
    /\ req' = [req EXCEPT ![s] = Succeed(@, 200)]
    /\ UNCHANGED <<orders, notifications, orderSeq, offerSeq, nRejects, nReads, calls>>

\* --------------------------------------------------------------- sendRing
\* Order.findById and the branch on req.user.role
sendRing_findOrder(s, c, order_id) ==
    /\ Arrive(s)
    /\ LET r == [Begin("sendRing", c) EXCEPT !.arg = order_id]
       IN IF order_id = InvalidId
          THEN req' = [req EXCEPT ![s] = Fail(r, 500, "error")] /\ UNCHANGED calls
          ELSE IF OrderById(order_id) = {}
          THEN req' = [req EXCEPT ![s] = Fail(r, 404, "order_not_found")] /\ UNCHANGED calls
          ELSE /\ calls.sendRing < MaxRings
               /\ calls' = [calls EXCEPT !.sendRing = @ + 1]
               /\ LET order == CHOOSE o \in OrderById(order_id) : TRUE
                  IN req' = [req EXCEPT ![s] =
                         IF c.role = "driver"
                         THEN [r EXCEPT !.pc = "create",
                                        !.note = Notif(order.customer_id, c.id, order_id, "ring")]
                         ELSE IF c.role = "user"
                         THEN [r EXCEPT !.pc = "findAccepted"]
                         ELSE Succeed(r, 201)]
    /\ UNCHANGED <<orders, offers, notifications, events, sockets, orderSeq, offerSeq, nRejects, nReads>>

AcceptedOffers(order_id) == {f \in offers : f.order_id = order_id /\ f.status = "Accepted"}

\* Offer.findOne({ order_id, status: 'Accepted' })
sendRing_findAccepted(s) ==
    /\ req[s].kind = "sendRing" /\ req[s].pc = "findAccepted"
    /\ IF AcceptedOffers(req[s].arg) = {}
       THEN req' = [req EXCEPT ![s] = Fail(@, 400, "no_accepted_offer")]
       ELSE \E f \in AcceptedOffers(req[s].arg) :
                req' = [req EXCEPT ![s] = [@ EXCEPT !.pc = "create", !.offer = f,
                                                   !.note = Notif(req[s].id, f.driver_id, req[s].arg, "ring")]]
    /\ UNCHANGED <<orders, offers, notifications, events, sockets, orderSeq, offerSeq, nRejects, nReads, calls>>

\* The counterparty's room: the customer for a driver's ring, the driver for a user's.
RingRoom(r) ==
    IF r.role = "driver" THEN Event("user", r.note.user_id, "ring-notification", r.arg)
    ELSE Event("driver", r.note.driver_id, "ring-notification", r.arg)

\* Notification.create of the ring, the two emits and the response
sendRing_create(s) ==
    /\ req[s].kind = "sendRing" /\ req[s].pc = "create"
    /\ IF ValidNotification(req[s].note)
       THEN /\ notifications' = Insert(notifications, req[s].note)
            /\ Publish({RingRoom(req[s]), Event("order", NoId, "ring-sent", req[s].arg)})
            /\ req' = [req EXCEPT ![s] = Succeed([@ EXCEPT !.wrote = TRUE], 201)]
       ELSE /\ req' = [req EXCEPT ![s] = Fail(@, 500, "error")]
            /\ UNCHANGED <<notifications, events, sockets>>
    /\ UNCHANGED <<orders, offers, orderSeq, offerSeq, nRejects, nReads, calls>>

\* ------------------------------------------------------------- markAsRead
\* The ledger after findByIdAndUpdate(id, { is_read: true }) on document n.
MarkRead(B, n) == (B (-) SetToBag({n})) (+) SetToBag({[n EXCEPT !.is_read = TRUE]})

\* Variant: the update flips is_read instead of setting it.
markAsRead_Toggle(s, c, n) ==
    /\ Arrive(s)
    /\ LET r == Begin("markAsRead", c)
       IN IF ~BagIn(n, notifications)
          THEN /\ req' = [req EXCEPT ![s] = Fail(r, 404, "notification_not_found")]
               /\ UNCHANGED <<notifications, calls>>
          ELSE /\ calls.markAsRead < MaxMarks
               /\ calls' = [calls EXCEPT !.markAsRead = @ + 1]
               /\ notifications' = (notifications (-) SetToBag({n}))
                                       (+) SetToBag({[n EXCEPT !.is_read = ~n.is_read]})
               /\ req' = [req EXCEPT ![s] =
                      Succeed([r EXCEPT !.arg = n.order_id, !.wrote = TRUE,
                                        !.note = [n EXCEPT !.is_read = ~n.is_read]], 200)]
    /\ UNCHANGED <<orders, offers, events, sockets, orderSeq, offerSeq, nRejects, nReads>>

\* Notification.findByIdAndUpdate(id, { is_read: true }, { new: true }) and the
\* response; the id names the document n of the ledger, or no document.
markAsRead(s, c, n) ==
    /\ Arrive(s)
    /\ LET r == Begin("markAsRead", c)
       IN IF ~BagIn(n, notifications)
          THEN /\ req' = [req EXCEPT ![s] = Fail(r, 404, "notification_not_found")]
               /\ UNCHANGED <<notifications, calls>>
          ELSE /\ calls.markAsRead < MaxMarks
               /\ calls' = [calls EXCEPT !.markAsRead = @ + 1]
               /\ notifications' = MarkRead(notifications, n)
               /\ req' = [req EXCEPT ![s] =
                      Succeed([r EXCEPT !.arg = n.order_id, !.wrote = TRUE,
                                        !.note = [n EXCEPT !.is_read = TRUE]], 200)]
    /\ UNCHANGED <<orders, offers, events, sockets, orderSeq, offerSeq, nRejects, nReads>>

\* ---------------------------------------------------------- markAllAsRead
\* The filter the ledger handlers build from req.user: the role 'user' selects
\* by user_id, the role 'driver' by driver_id, any other role selects nothing.
AnyId == "any"

OwnerQuery(c) ==
    [user_id |-> IF c.role = "user" THEN c.id ELSE AnyId,
     driver_id |-> IF c.role = "driver" THEN c.id ELSE AnyId]

Matches(q, n) ==
    /\ q.user_id = AnyId \/ n.user_id = q.user_id
    /\ q.driver_id = AnyId \/ n.driver_id = q.driver_id

\* Variant: the update writes is_read: false.
MarkAllRead_Unread(B, q) ==
    BagOfAll(LAMBDA n : IF Matches(q, n) THEN [n EXCEPT !.is_read = FALSE] ELSE n, B)

\* The ledger after updateMany({ ...query, is_read: false }, { is_read: true }).
MarkAllRead(B, q) ==
    BagOfAll(LAMBDA n : IF Matches(q, n) /\ ~n.is_read THEN [n EXCEPT !.is_read = TRUE] ELSE n, B)

\* Notification.updateMany over the caller's unread documents and the response
markAllAsRead(s, c) ==
    /\ Arrive(s)
    /\ calls.markAllAsRead < MaxMarkAlls
    /\ calls' = [calls EXCEPT !.markAllAsRead = @ + 1]
    /\ notifications' = MarkAllRead(notifications, OwnerQuery(c))
    /\ req' = [req EXCEPT ![s] = Succeed([Begin("markAllAsRead", c) EXCEPT !.wrote = TRUE], 200)]
    /\ UNCHANGED <<orders, offers, events, sockets, orderSeq, offerSeq, nRejects, nReads>>

\* ----------------------------------------------------- deleteNotification
\* Notification.findByIdAndDelete(id) and the response; the id names the
\* document n of the ledger, or no document.
deleteNotification(s, c, n) ==
    /\ Arrive(s)
    /\ LET r == Begin("deleteNotification", c)
       IN IF ~BagIn(n, notifications)
          THEN /\ req' = [req EXCEPT ![s] = Fail(r, 404, "notification_not_found")]
               /\ UNCHANGED <<notifications, calls>>
          ELSE /\ calls.deleteNotification < MaxNoteDeletes
               /\ calls' = [calls EXCEPT !.deleteNotification = @ + 1]
               /\ notifications' = notifications (-) SetToBag({n})
               /\ req' = [req EXCEPT ![s] =
                      Succeed([r EXCEPT !.arg = n.order_id, !.wrote = TRUE, !.note = n], 200)]
    /\ UNCHANGED <<orders, offers, events, sockets, orderSeq, offerSeq, nRejects, nReads>>

\* ------------------------------------------------------- getNotifications
\* The documents a query selects, as a bag.
Select(B, q, unreadOnly) ==
    [n \in {m \in BagToSet(B) : Matches(q, m) /\ (unreadOnly => ~m.is_read)} |-> CopiesIn(n, B)]

\* the query from req.user and unreadOnly, then Notification.find (the first
\* page holds the whole ledger)
getNotifications_find(s, c, unreadOnly) ==
    /\ Arrive(s)
    /\ calls.getNotifications < MaxLists
    /\ calls' = [calls EXCEPT !.getNotifications = @ + 1]
    /\ req' = [req EXCEPT ![s] =
                  [Begin("getNotifications", c) EXCEPT
                      !.pc = "count", !.raced = unreadOnly,
                      !.seen = BagToSet(Select(notifications, OwnerQuery(c), unreadOnly))]]
    /\ UNCHANGED <<orders, offers, notifications, events, sockets, orderSeq, offerSeq, nRejects, nReads>>

\* Notification.countDocuments(query)
getNotifications_count(s) ==
    /\ req[s].kind = "getNotifications" /\ req[s].pc = "count"
    /\ req' = [req EXCEPT ![s] =
                  [@ EXCEPT !.pc = "countUnread",
                            !.total = BagCardinality(Select(notifications, OwnerQuery(req[s]), req[s].raced))]]
    /\ UNCHANGED <<orders, offers, notifications, events, sockets, orderSeq, offerSeq, nRejects, nReads, calls>>

\* Notification.countDocuments({ ...query, is_read: false }) and the response
getNotifications_countUnread(s) ==
    /\ req[s].kind = "getNotifications" /\ req[s].pc = "countUnread"
    /\ req' = [req EXCEPT ![s] =
                  Succeed([@ EXCEPT !.unread = BagCardinality(Select(notifications, OwnerQuery(req[s]), TRUE))], 200)]
    /\ UNCHANGED <<orders, offers, notifications, events, sockets, orderSeq, offerSeq, nRejects, nReads, calls>>

\* ------------------------------------------------------------ store errors
\* An awaited store call of an in-flight request rejects: the handler's catch
\* block answers 500 and what the request wrote before stays written.
StoreError(s) ==
    /\ calls.storeError < MaxStoreErrors
    /\ calls' = [calls EXCEPT !.storeError = @ + 1]
    /\ req' = [req EXCEPT ![s] = Fail(@, 500, "error")]
    /\ UNCHANGED <<orders, offers, notifications, events, sockets, orderSeq, offerSeq, nRejects, nReads>>

\* catch of createOrder: Order.create, Notification.create, Driver.find or
\* Order.findById rejects
createOrder_catch(s) ==
    /\ req[s].kind = "createOrder"
    /\ req[s].pc \in {"create", "notifyRouter", "notifyDrivers", "respond"}
    /\ StoreError(s)

\* the inner try/catch of createOrder: Notification.insertMany rejects, the
\* error is logged and the handler goes on
createOrder_insertManyCatch(s) ==
    /\ req[s].kind = "createOrder" /\ req[s].pc = "notifyDrivers"
    /\ DriverNotifications(req[s].vehicle, req[s].arg) # {}
    /\ calls.storeError < MaxStoreErrors
    /\ calls' = [calls EXCEPT !.storeError = @ + 1]
    /\ req' = [req EXCEPT ![s] = [@ EXCEPT !.pc = "respond"]]
    /\ UNCHANGED <<orders, offers, notifications, events, sockets, orderSeq, offerSeq, nRejects, nReads>>

\* catch of createOffer: Offer.findOne, Offer.create, Offer.findById or
\* Notification.create rejects
createOffer_catch(s) ==
    /\ req[s].kind = "createOffer"
    /\ req[s].pc \in {"findExisting", "create", "notifyRouter", "notifyDriver"}
    /\ StoreError(s)

\* catch of acceptOffer: any of its awaited calls after Offer.findById rejects
acceptOffer_catch(s) ==
    /\ req[s].kind = "acceptOffer"
    /\ req[s].pc \in {"findOrder", "save", "updateMany", "activate",
                      "notifyAccepted", "findRejected", "notifyRejected"}
    /\ StoreError(s)

\* --------------------------------------------------- io.on('connection')
\* The rooms the clients ask for.
JoinRooms == {Room("user", "r1", 0), Room("driver", "d1", 0), Room("order", NoId, 1)}

NotificationRoomCallers == {Caller("d2"), Caller("r1")}

SubscribeRooms == {Room("order-offers", NoId, 1)}

\* a client connects: a new socket, in no room (inbox is what the client has
\* received over all its connections)
connection(k) ==
    /\ ~sockets[k].up
    /\ calls.connection < MaxConnects
    /\ calls' = [calls EXCEPT !.connection = @ + 1]
    /\ sockets' = [sockets EXCEPT ![k] = [NoSocket EXCEPT !.up = TRUE, !.inbox = sockets[k].inbox]]
    /\ UNCHANGED <<orders, offers, notifications, events, req, orderSeq, offerSeq, nRejects, nReads>>

\* socket.join(room) of the handlers join-user-room, join-driver-room,
\* join-order-room and subscribe-*
join(k, room) ==
    /\ sockets[k].up
    /\ calls.join < MaxJoins
    /\ calls' = [calls EXCEPT !.join = @ + 1]
    /\ sockets' = [sockets EXCEPT ![k].rooms = @ \cup {room}, ![k].joined = @ \cup {room}]
    /\ UNCHANGED <<orders, offers, notifications, events, req, orderSeq, offerSeq, nRejects, nReads>>

\* join-notification-room: the role 'user' joins user-<id>, the role 'driver'
\* driver-<id>, any other role joins nothing
join_notification_room(k, userId, role) ==
    /\ role \in {"user", "driver"}
    /\ join(k, Room(role, userId, 0))

\* socket.leave(room) of the handlers unsubscribe-*
leave(k, room) ==
    /\ sockets[k].up
    /\ room \in sockets[k].rooms
    /\ sockets' = [sockets EXCEPT ![k].rooms = @ \ {room}, ![k].joined = @ \ {room}]
    /\ UNCHANGED <<orders, offers, notifications, events, req, orderSeq, offerSeq, nRejects, nReads, calls>>

\* the socket disconnects: Socket.IO takes it out of every room; the handler
\* only logs
disconnect(k) ==
    /\ sockets[k].up
    /\ sockets' = [sockets EXCEPT ![k] = [NoSocket EXCEPT !.inbox = sockets[k].inbox]]
    /\ UNCHANGED <<orders, offers, notifications, events, req, orderSeq, offerSeq, nRejects, nReads, calls>>

\* ------------------------------------------------------------------- Next
OrderIdInputs == {InvalidId} \cup (1 .. MaxOrders)

OfferIdInputs == {InvalidId} \cup (1 .. MaxOffers)

Next ==
    \/ \E s \in Slots, c \in OrderCallers, v \in VehicleInputs : createOrder_validate(s, c, v)
    \/ \E s \in Slots : createOrder_create(s)
    \/ \E s \in Slots : createOrder_notifyRouter(s)
    \/ \E s \in Slots : createOrder_notifyDrivers(s)
    \/ \E s \in Slots : createOrder_respond(s)
    \/ \E s \in Slots, c \in OfferCallers, o \in OrderIdInputs, p \in Prices : createOffer_findOrder(s, c, o, p)
    \/ \E s \in Slots : createOffer_findExisting(s)
    \/ \E s \in Slots : createOffer_create(s)
    \/ \E s \in Slots : createOffer_notifyRouter(s)
    \/ \E s \in Slots : createOffer_notifyDriver(s)
    \/ \E s \in Slots, c \in AcceptCallers, f \in OfferIdInputs : acceptOffer_findOffer(s, c, f)
    \/ \E s \in Slots : acceptOffer_findOrder(s)
    \/ \E s \in Slots : acceptOffer_save(s)
    \/ \E s \in Slots : acceptOffer_updateMany(s)
    \/ \E s \in Slots : acceptOffer_activate(s)
    \/ \E s \in Slots : acceptOffer_notifyAccepted(s)
    \/ \E s \in Slots : acceptOffer_findRejected(s)
    \/ \E s \in Slots : acceptOffer_notifyRejected(s)

Spec == Init /\ [][Next]_vars

\* The negotiation handlers together with the router's read of an order's offers.
NextReads ==
    \/ Next
    \/ \E s \in Slots, c \in ReadCallers, o \in OrderIdInputs : getOrderOffers_findOrder(s, c, o)
    \/ \E s \in Slots : getOrderOffers_find(s)

SpecReads == Init /\ [][NextReads]_vars

\* The negotiation handlers, running concurrently, with deleteOrder.
NextDelete ==
    \/ Next
    \/ \E s \in Slots, c \in DeleteCallers, o \in OrderIdInputs : deleteOrder_delete(s, c, o)
    \/ \E s \in Slots : deleteOrder_deleteMany(s)

SpecDelete == Init /\ [][NextDelete]_vars

\* No request is in flight.
Quiet == \A s \in Slots : Free(s)

\* The steps of the negotiation handlers after their first.
Steps ==
    \/ \E s \in Slots : createOrder_create(s)
    \/ \E s \in Slots : createOrder_notifyRouter(s)
    \/ \E s \in Slots : createOrder_notifyDrivers(s)
    \/ \E s \in Slots : createOrder_respond(s)
    \/ \E s \in Slots : createOffer_findExisting(s)
    \/ \E s \in Slots : createOffer_create(s)
    \/ \E s \in Slots : createOffer_notifyRouter(s)
    \/ \E s \in Slots : createOffer_notifyDriver(s)
    \/ \E s \in Slots : acceptOffer_findOrder(s)
    \/ \E s \in Slots : acceptOffer_save(s)
    \/ \E s \in Slots : acceptOffer_updateMany(s)
    \/ \E s \in Slots : acceptOffer_activate(s)
    \/ \E s \in Slots : acceptOffer_notifyAccepted(s)
    \/ \E s \in Slots : acceptOffer_findRejected(s)
    \/ \E s \in Slots : acceptOffer_notifyRejected(s)

\* The negotiation handlers with one request at a time: a request arrives
\* only when no other is in flight.
NextSerial ==
    \/ \E s \in Slots, c \in OrderCallers, v \in VehicleInputs : Quiet /\ createOrder_validate(s, c, v)
    \/ \E s \in Slots, c \in OfferCallers, o \in OrderIdInputs, p \in Prices :
           Quiet /\ createOffer_findOrder(s, c, o, p)
    \/ \E s \in Slots, c \in AcceptCallers, f \in OfferIdInputs : Quiet /\ acceptOffer_findOffer(s, c, f)
    \/ Steps

SpecSerial == Init /\ [][NextSerial]_vars

\* Requests that pass their handler's checks, one at a time, with clients
\* that connect, join and leave rooms and disconnect between the requests (a
\* handler emits in its last step).
NextGateway ==
    \/ \E s \in Slots : Quiet /\ createOrder_validate(s, Caller("r1"), "v1")
    \/ \E s \in Slots, c \in {Caller("d1"), Caller("d2")} : Quiet /\ createOffer_findOrder(s, c, 1, 100)
    \/ \E s \in Slots, f \in 1 .. MaxOffers : Quiet /\ acceptOffer_findOffer(s, Caller("r1"), f)
    \/ Steps
    \/ \E k \in Clients : Quiet /\ connection(k)
    \/ \E k \in Clients, room \in JoinRooms \cup SubscribeRooms : Quiet /\ join(k, room)
    \/ \E k \in Clients, c \in NotificationRoomCallers : Quiet /\ join_notification_room(k, c.id, c.role)
    \/ \E k \in Clients, room \in SubscribeRooms : Quiet /\ leave(k, room)
    \/ \E k \in Clients : Quiet /\ disconnect(k)

SpecGateway == Init /\ [][NextGateway]_vars

\* One request at a time, with store calls that reject.
NextFaults ==
    \/ NextSerial
    \/ \E s \in Slots : createOrder_catch(s)
    \/ \E s \in Slots : createOrder_insertManyCatch(s)
    \/ \E s \in Slots : createOffer_catch(s)
    \/ \E s \in Slots : acceptOffer_catch(s)

SpecFaults == Init /\ [][NextFaults]_vars

\* One request at a time, with the handlers of the first version of the API
\* that are still exported: rejectOffer and updateOrder.
NextLegacy ==
    \/ NextSerial
    \/ \E s \in Slots, c \in RejectCallers, f \in OfferIdInputs : Quiet /\ rejectOffer_update(s, c, f)
    \/ \E s \in Slots : rejectOffer_notify(s)
    \/ \E s \in Slots, c \in UpdateCallers, o \in OrderIdInputs, st \in UpdateStatuses :
           Quiet /\ updateOrder(s, c, o, st)

SpecLegacy == Init /\ [][NextLegacy]_vars

\* One request at a time, with createOrder of the first API version.
NextV1 ==
    \/ NextSerial
    \/ \E s \in Slots, c \in OrderCallers, v \in VehicleInputs : Quiet /\ createOrderV1_validate(s, c, v)
    \/ \E s \in Slots : createOrderV1_create(s)
    \/ \E s \in Slots : createOrderV1_notify(s)
    \/ \E s \in Slots : createOrderV1_respond(s)

SpecV1 == Init /\ [][NextV1]_vars

\* One request at a time, with sendRing.
NextRing ==
    \/ NextSerial
    \/ \E s \in Slots, c \in RingCallers, o \in OrderIdInputs : Quiet /\ sendRing_findOrder(s, c, o)
    \/ \E s \in Slots : sendRing_findAccepted(s)
    \/ \E s \in Slots : sendRing_create(s)

SpecRing == Init /\ [][NextRing]_vars

\* The documents a markAsRead request may name: those of the ledger and one
\* that is not in it.
MarkTargets == BagToSet(notifications) \cup {NoNote}

\* One negotiation request at a time, with markAsRead (a single store call)
\* arriving at any moment.
NextLedger ==
    \/ NextSerial
    \/ \E s \in Slots, c \in MarkCallers, n \in MarkTargets : markAsRead(s, c, n)

SpecLedger == Init /\ [][NextLedger]_vars

\* The writes of the notification routes served so far.
LedgerWrites == calls.markAsRead + calls.markAllAsRead + calls.deleteNotification

\* One request at a time, with the three writing handlers of the notification
\* routes: markAsRead, markAllAsRead and deleteNotification.
NextInbox ==
    \/ NextSerial
    \/ \E s \in Slots, c \in MarkCallers, n \in MarkTargets :
           Quiet /\ LedgerWrites < MaxLedgerWrites /\ markAsRead(s, c, n)
    \/ \E s \in Slots, c \in LedgerCallers :
           Quiet /\ LedgerWrites < MaxLedgerWrites /\ markAllAsRead(s, c)
    \/ \E s \in Slots, c \in MarkCallers, n \in MarkTargets :
           Quiet /\ LedgerWrites < MaxLedgerWrites /\ deleteNotification(s, c, n)

SpecInbox == Init /\ [][NextInbox]_vars

\* One request at a time, with getNotifications and markAsRead.
NextListing ==
    \/ NextSerial
    \/ \E s \in Slots, c \in MarkCallers, n \in MarkTargets : Quiet /\ markAsRead(s, c, n)
    \/ \E s \in Slots, c \in LedgerCallers, u \in BOOLEAN : Quiet /\ getNotifications_find(s, c, u)
    \/ \E s \in Slots : getNotifications_count(s)
    \/ \E s \in Slots : getNotifications_countUnread(s)

SpecListing == Init /\ [][NextListing]_vars

\* ================================================================= claims
OffersOf(order_id) == {f \in offers : f.order_id = order_id}

AcceptedOf(order_id) == {f \in OffersOf(order_id) : f.status = "Accepted"}

StoreUnchanged == UNCHANGED <<orders, offers, notifications, events>>

\* Notifications of one kind for one addressee and order, read or unread.
CountNotif(user, driver, order, type) ==
    CopiesIn(Notif(user, driver, order, type), notifications)
    + CopiesIn([Notif(user, driver, order, type) EXCEPT !.is_read = TRUE], notifications)

\* Slot s takes a step in which its request answers with this status.
Answers(s, kind, code) ==
    /\ req[s].kind = kind /\ InFlight(s)
    /\ req'[s].pc = "done" /\ req'[s].status = code

\* C1: in every reachable state, the intermediate states of in-flight
\* acceptOffer calls included, each order has at most one Accepted offer.
C1_AtMostOneAccepted == \A o \in orders : Cardinality(AcceptedOf(o._id)) <= 1

\* C2: of two acceptOffer calls that run concurrently on two different Pending
\* offers of one order, exactly one reports success, and in the final state
\* exactly the winner's offer is Accepted.
C2_ExactlyOneWins ==
    \A s, t \in Slots :
        (/\ s # t
         /\ req[s].kind = "acceptOffer" /\ req[s].pc = "done" /\ req[s].raced
         /\ req[t].kind = "acceptOffer" /\ req[t].pc = "done" /\ req[t].raced
         /\ req[s].offer.order_id = req[t].offer.order_id
         /\ req[s].offer._id # req[t].offer._id)
        => /\ (req[s].status = 200) # (req[t].status = 200)
           /\ req[s].status = 200 =>
                  {f._id : f \in AcceptedOf(req[s].offer.order_id)} = {req[s].offer._id}

\* The three parts of the acceptance of offer f are in the store.
AcceptApplied(f) ==
    /\ \E g \in OfferById(f._id) : g.status = "Accepted"
    /\ \E o \in OrderById(f.order_id) : o.status = "Active"
    /\ \A g \in OffersOf(f.order_id) : g._id # f._id => g.status = "Rejected"

\* C3: at the moment acceptOffer reports success for offer F of order X the
\* store holds F Accepted, X Active and every other offer of X Rejected, also
\* when createOffer requests for X run concurrently.
C3_AcceptIsComplete ==
    [][\A s \in Slots : \A f \in {req[s].offer} :
          Answers(s, "acceptOffer", 200) => AcceptApplied(f)']_vars

AcceptInFlight(order_id) ==
    \E t \in Slots : /\ req[t].kind = "acceptOffer" /\ InFlight(t)
                     /\ req[t].offer.order_id = order_id

PartialView(seen) == \E a, b \in seen : a[2] = "Accepted" /\ b[2] = "Pending"

\* C4: a getOrderOffers that runs concurrently with acceptOffer never returns
\* an Accepted offer of the order together with a still Pending one.
C4_NoPartialRead ==
    [][\A s \in Slots :
          (Answers(s, "getOrderOffers", 200) /\ AcceptInFlight(req[s].arg))
          => ~PartialView(req'[s].seen)]_vars

\* C5: in every reachable state there is at most one offer for each
\* (order_id, driver_id) pair.
C5_UniqueOfferPerDriver ==
    \A f, g \in offers : (f.order_id = g.order_id /\ f.driver_id = g.driver_id) => f._id = g._id

OffersBy(order_id, driver_id) == {f \in OffersOf(order_id) : f.driver_id = driver_id}

\* The driver of the createOffer request in slot s already has an offer on the order.
SecondSubmit(s) ==
    /\ req[s].kind = "createOffer" /\ req[s].pc = "findExisting"
    /\ OffersBy(req[s].arg, req[s].id) # {}

\* C6: a createOffer by a driver who already has an offer on the order fails
\* with 400 (duplicate offer), inserts nothing, writes no notification and
\* publishes nothing, so the driver's offer stays as it was, price included.
C6_SecondSubmitRefused ==
    [][\A s \in Slots : \A x \in {req[s].arg}, d \in {req[s].id} :
          (SecondSubmit(s) /\ req'[s] # req[s])
          => /\ req'[s].pc = "done" /\ req'[s].status = 400 /\ req'[s].msg = "duplicate_offer"
             /\ StoreUnchanged
             /\ OffersBy(x, d)' = OffersBy(x, d)]_vars

C6_Witness ==
    \E s \in Slots :
        /\ req[s].kind = "createOffer" /\ req[s].status = 400 /\ req[s].msg = "duplicate_offer"
        /\ \E f \in offers : offers = {f} /\ f.price = 100

\* The acceptOffer request in slot s read an offer that was not Pending.
AcceptOfNonPending(s) ==
    /\ req[s].kind = "acceptOffer" /\ req[s].pc = "findOrder"
    /\ req[s].offer.status # "Pending"

IsOwner(user, order_id) == \E o \in OrderById(order_id) : o.customer_id = user

OfferStatusChanged(order_id) ==
    \E f \in OffersOf(order_id) : \E g \in offers' : g._id = f._id /\ g.status # f.status

\* The acceptOffer request in slot s is by a router who does not own the offer's order.
AcceptByStranger(s) ==
    /\ req[s].kind = "acceptOffer" /\ req[s].pc = "findOrder"
    /\ ~IsOwner(req[s].id, req[s].offer.order_id)

SameCategory(d, vehicle) ==
    /\ DriverVehicle[d] \in DOMAIN VehicleCategory /\ vehicle \in DOMAIN VehicleCategory
    /\ VehicleCategory[DriverVehicle[d]] = VehicleCategory[vehicle]

\* C9: when createOrder reports success, the ledger holds exactly one
\* new_order_available notification of the new order for every driver whose
\* vehicle category equals the order's and none for any other driver.
C9_MatchingDriversNotified ==
    [][\A s \in Slots : \A x \in {req[s].arg}, v \in {req[s].vehicle} :
          Answers(s, "createOrder", 201)
          => \A d \in Drivers :
                 CountNotif(NoId, d, x, "new_order_available")'
                     = IF SameCategory(d, v) THEN 1 ELSE 0]_vars

C9_Witness ==
    \E s \in Slots :
        /\ req[s].kind = "createOrder" /\ req[s].status = 201
        /\ CountNotif(NoId, "d1", req[s].arg, "new_order_available") = 1
        /\ CountNotif(NoId, "d2", req[s].arg, "new_order_available") = 1
        /\ CountNotif(NoId, "d3", req[s].arg, "new_order_available") = 0

\* C10: createOrder by a router whose vehicle_type names no existing vehicle
\* answers 400 at once: no Order is inserted, no Notification written and no
\* event published.
C10_UnknownVehicleRefused ==
    [][\A s \in Slots, c \in OrderCallers, v \in VehicleInputs :
          (createOrder_validate(s, c, v) /\ c.role = "router" /\ v \notin Vehicles)
          => /\ req'[s].pc = "done" /\ req'[s].status = 400
             /\ req'[s].msg = IF v = MalformedVehicle THEN "validation" ELSE "invalid_vehicle"
             /\ StoreUnchanged]_vars

C10_Witness ==
    \E s \in Slots :
        /\ req[s].kind = "createOrder" /\ req[s].status = 400 /\ req[s].msg = "invalid_vehicle"
        /\ orders = {} /\ notifications = EmptyBag /\ events = {}

C12_InsertedOfferSucceeds ==
    [][\A s \in Slots :
          (req[s].kind = "createOffer" /\ InFlight(s) /\ req[s].wrote /\ req'[s].pc = "done")
          => req'[s].status = 201]_vars

\* Notifications of an order addressed to a user, other than those written by
\* createOrder and createOffer.
Confirmations(user, order) ==
    {n \in BagToSet(notifications) :
        /\ n.user_id = user /\ n.order_id = order
        /\ n.type \notin {"order_created", "new_offer"}}

\* C14: when acceptOffer answers 200 the ledger holds exactly one confirmation
\* notification of the order whose user_id is the accepting router.
C14_RouterConfirmed ==
    [][\A s \in Slots : \A r \in {req[s]} :
          Answers(s, "acceptOffer", 200)
          => \E n \in Confirmations(r.id, r.offer.order_id)' :
                 /\ Confirmations(r.id, r.offer.order_id)' = {n}
                 /\ CopiesIn(n, notifications') = 1]_vars

TerminalOfferStatuses == {"Accepted", "Rejected", "Expired"}

\* C15: an offer whose status is Accepted, Rejected or Expired keeps that
\* status for as long as it exists.
C15_TerminalOfferStays ==
    [][\A f \in offers : \A g \in offers' :
          (f.status \in TerminalOfferStatuses /\ g._id = f._id) => g.status = f.status]_vars

OrderRank == ("Pending" :> 0) @@ ("Offered" :> 1) @@ ("Active" :> 2) @@ ("Ended" :> 3)

\* C16: an order's status only moves forward, from Pending over Offered or
\* Active to Ended: no step takes an order to an earlier status, and an Ended
\* order keeps its status.
C16_OrderMovesForward ==
    [][\A o \in orders : \A p \in orders' :
          p._id = o._id => OrderRank[p.status] >= OrderRank[o.status]]_vars

\* C17: the first step of rejectOffer changes no order and no offer other
\* than its target, changes the target only from Pending to Rejected, and
\* changes nothing in the store when the target is not Pending.
C17_RejectFrame ==
    [][\A s \in Slots, c \in RejectCallers, id \in OfferIdInputs :
          rejectOffer_update(s, c, id)
          => /\ orders' = orders
             /\ \A f \in offers : \E g \in offers' :
                    /\ g._id = f._id
                    /\ g # f => /\ f._id = id /\ f.status = "Pending"
                                /\ g = [f EXCEPT !.status = "Rejected"]
             /\ (\E f \in OfferById(id) : f.status # "Pending") => StoreUnchanged]_vars

\* Slot s takes a step that ends with the response of a request of this kind.
Responds(s, kind, code) ==
    /\ req'[s] # req[s]
    /\ req'[s].kind = kind /\ req'[s].pc = "done" /\ req'[s].status = code

\* C18: sendRing by the order's router, with role router, on an order that has
\* no Accepted offer answers 400 and leaves the store and the events as they were.
C18_RingNeedsAcceptedOffer ==
    [][\A s \in Slots, c \in RingCallers, o \in OrderIdInputs :
          (/\ sendRing_findOrder(s, c, o)
           /\ c.role = "router" /\ IsOwner(c.id, o) /\ AcceptedOf(o) = {})
          => /\ req'[s].pc = "done" /\ req'[s].status = 400
             /\ StoreUnchanged]_vars

RingNotifications(order) ==
    {Notif(u, d, order, "ring") : u \in Routers, d \in Drivers}

\* C19: a step in which sendRing answers 201 completes the write of exactly
\* one ring notification of the order and the publication of a
\* ring-notification event to the counterparty, and no step of sendRing
\* changes an Order or an Offer.
C19_RingWritesOne ==
    [][\A s \in Slots :
          /\ Responds(s, "sendRing", 201)
                => \E n \in RingNotifications(req'[s].arg) :
                       /\ notifications' = Insert(notifications, n)
                       /\ \/ Event("user", n.user_id, "ring-notification", n.order_id) \in events'
                          \/ Event("driver", n.driver_id, "ring-notification", n.order_id) \in events'
          /\ (req'[s] # req[s] /\ req'[s].kind = "sendRing")
                => UNCHANGED <<orders, offers>>]_vars

\* C20: markAsRead on a document of the ledger answers 200, returns the
\* document with is_read = true and leaves it so in the ledger; on a document
\* that is already read it changes nothing, and applying the update once more
\* to the result gives the same ledger.
C20_MarkAsReadIdempotent ==
    [][\A s \in Slots, c \in MarkCallers, n \in MarkTargets :
          (markAsRead(s, c, n) /\ BagIn(n, notifications))
          => /\ req'[s].pc = "done" /\ req'[s].status = 200
             /\ req'[s].note = [n EXCEPT !.is_read = TRUE]
             /\ BagIn(req'[s].note, notifications')
             /\ BagCardinality(notifications') = BagCardinality(notifications)
             /\ n.is_read => notifications' = notifications
             /\ MarkRead(notifications', req'[s].note) = notifications']_vars

C20_Witness ==
    \E s \in Slots :
        /\ req[s].kind = "markAsRead" /\ req[s].status = 200
        /\ calls.markAsRead = 2
        /\ \E n \in BagToSet(notifications) :
              /\ {m \in BagToSet(notifications) : m.is_read} = {n}
              /\ CopiesIn(n, notifications) = 1
              /\ req[s].note = n

\* Documents of the ledger that left it in this step (0 when none did).
Gone == BagCardinality(notifications) - BagCardinality(notifications')

\* C21: a notification enters the ledger unread, and a read notification
\* stays read for as long as it is in the ledger: a step that adds documents
\* adds unread ones and changes no other, a step that removes documents
\* changes none that stay, and no other step turns a read document unread.
C21_ReadStaysRead ==
    [][/\ Gone > 0 => notifications' \sqsubseteq notifications
       /\ Gone <= 0 => \A m \in BagToSet(notifications) :
                           m.is_read => CopiesIn(m, notifications') >= CopiesIn(m, notifications)
       /\ Gone < 0 => \A m \in BagToSet(notifications') :
                          m.is_read => CopiesIn(m, notifications') = CopiesIn(m, notifications)
       /\ Gone = 0 => \A u \in BagToSet(notifications') :
                          ~u.is_read => CopiesIn(u, notifications') <= CopiesIn(u, notifications)]_vars

C21_Witness ==
    /\ req[1].kind = "acceptOffer" /\ req[1].status = 200
    /\ calls.markAllAsRead = 1 /\ calls.markAsRead = 1
    /\ \E m, u \in BagToSet(notifications) :
          /\ m.is_read /\ m.type = "new_order_available"
          /\ ~u.is_read /\ u.type = "offer_accepted"

\* The caller is neither the user_id nor the driver_id of the document.
Stranger(c, n) == c.id # n.user_id /\ c.id # n.driver_id

\* C23: markAsRead and deleteNotification by a caller who is neither the
\* user_id nor the driver_id of the targeted notification answer 403 and
\* leave the ledger as it was.
C23_StrangerCannotMutate ==
    [][\A s \in Slots, c \in MarkCallers, n \in MarkTargets :
          (/\ markAsRead(s, c, n) \/ deleteNotification(s, c, n)
           /\ BagIn(n, notifications) /\ Stranger(c, n))
          => /\ req'[s].pc = "done" /\ req'[s].status = 403
             /\ notifications' = notifications]_vars

\* The documents of bag B that belong to the caller r: by user_id for a
\* router, by driver_id for a driver, by either for any other role.
OwnDocs(r, B) ==
    {n \in BagToSet(B) :
        IF r.role = "router" THEN n.user_id = r.id
        ELSE IF r.role = "driver" THEN n.driver_id = r.id
        ELSE ~Stranger(r, n)}

\* C24: getNotifications returns only documents that belong to its caller,
\* and its total and unreadCount count no others.
C24_OwnListing ==
    [][\A s \in Slots : \A r \in {req'[s]} :
          (r.kind = "getNotifications" /\ r # req[s] /\ r.status \in {0, 200})
          => /\ r.seen \subseteq OwnDocs(r, notifications)
             /\ r.total <= BagCardinality([n \in OwnDocs(r, notifications) |-> CopiesIn(n, notifications)])
             /\ r.unread <= r.total \/ r.pc # "done"]_vars

\* C22: every notification of the ledger has a user_id or a driver_id: a
\* notification with neither is refused and not stored.
C22_NotificationHasOwner ==
    \A n \in BagToSet(notifications) : n.user_id # NoId \/ n.driver_id # NoId

DeleteInFlight == \E s \in Slots : req[s].kind = "deleteOrder" /\ InFlight(s)

\* C25: whenever no deleteOrder is between its two store calls, every
\* offer's order_id names an order of the store, also after a createOffer
\* that ran concurrently with the deleteOrder of its order.
C25_OffersHaveOrders ==
    ~DeleteInFlight => \A f \in offers : OrderById(f.order_id) # {}

\* The request has persisted its primary mutation: the order, the offer, or
\* the three writes of the acceptance.
PrimaryDone(r) ==
    \/ r.kind \in {"createOrder", "createOffer"} /\ r.wrote
    \/ r.kind = "acceptOffer" /\ r.pc \in {"notifyAccepted", "findRejected", "notifyRejected"}

\* C26: a createOrder, createOffer or acceptOffer request that has persisted
\* its primary mutation answers with success, also when a later notification
\* write fails.
C26_SideEffectFailureSwallowed ==
    [][\A s \in Slots :
          (InFlight(s) /\ PrimaryDone(req[s]) /\ req'[s].pc = "done")
          => req'[s].status \in {200, 201}]_vars

\* C27: an acceptOffer that answers with an error after a store call of its
\* primary mutation failed leaves its offer not Accepted, and a createOrder
\* that answers with an error leaves no order of its own in the store.
C27_FailedPrimaryLeavesNothing ==
    [][\A s \in Slots : \A r \in {req[s]} :
          /\ (Answers(s, "acceptOffer", 500) /\ r.pc \in {"save", "updateMany", "activate"})
                => \A g \in OfferById(r.offer._id)' : g.status # "Accepted"
          /\ (Answers(s, "createOrder", 500) /\ r.wrote)
                => OrderById(r.arg)' = {}]_vars

\* The driver has an offer of the order, other than offer f, that is Rejected.
HasRejectedSibling(d, f) ==
    \E g \in OffersOf(f.order_id) : g._id # f._id /\ g.driver_id = d /\ g.status = "Rejected"

\* C28: the step in which acceptOffer answers 200 publishes offer-accepted
\* to the accepted driver's room and (as offer-accepted-confirmation) to the
\* router's room, order-updated to both rooms, and offer-rejected to the
\* room of every driver with a rejected sibling offer and of no other driver.
C28_AcceptEvents ==
    [][\A s \in Slots : \A r \in {req[s]} : \A f \in {req[s].offer} :
          Answers(s, "acceptOffer", 200)
          => /\ {Event("driver", f.driver_id, "offer-accepted", f.order_id),
                 Event("user", r.id, "offer-accepted-confirmation", f.order_id),
                 Event("driver", f.driver_id, "order-updated", f.order_id),
                 Event("user", r.id, "order-updated", f.order_id)} \subseteq events'
             /\ \A d \in Drivers :
                    HasRejectedSibling(d, f)'
                        => Event("driver", d, "offer-rejected", f.order_id) \in events'
             /\ \A d \in Drivers :
                    Event("driver", d, "offer-rejected", f.order_id) \in events' \ events
                        => HasRejectedSibling(d, f)']_vars

\* C29: a createOffer request that has inserted its offer has, when it
\* answers, published the new offer to the room of the order's router and
\* offer-created to the order's own room order-<order_id>.
C29_OfferCreatedToOrderRoom ==
    [][\A s \in Slots : \A r \in {req[s]} :
          (r.kind = "createOffer" /\ InFlight(s) /\ r.wrote /\ req'[s].pc = "done")
          => /\ Event("user", r.customer, "new-offer", r.arg) \in events'
             /\ Event("order", NoId, "offer-created", r.arg) \in events']_vars

\* C30: room membership belongs to the connection and is not kept: an event
\* published to a room reaches a client only over a live connection that has
\* joined the room and has not left it since; a socket that is down is in no
\* room, and a new connection starts in no room, so nothing published to a
\* room reaches it until it joins the room again.
C30_RoomsPerConnection ==
    [][\A k \in Clients :
          /\ \A e \in sockets'[k].inbox \ sockets[k].inbox :
                 e.room # "all" => sockets[k].up /\ Addr(e) \in sockets[k].joined
          /\ ~sockets'[k].up => sockets'[k].rooms = {}
          /\ (~sockets[k].up /\ sockets'[k].up)
                 => sockets'[k].rooms = {} /\ sockets'[k].inbox = sockets[k].inbox]_vars

\* A client that received order-created in the router's room, disconnected,
\* was away or not yet back in the room when the acceptance was published to
\* the same room, and is in the room again without having received it.
C30_Witness ==
    \E k \in Clients :
        /\ sockets[k].up /\ Room("user", "r1", 0) \in sockets[k].rooms
        /\ Event("user", "r1", "order-created", 1) \in sockets[k].inbox
        /\ Event("user", "r1", "offer-accepted-confirmation", 1) \in events
        /\ Event("user", "r1", "offer-accepted-confirmation", 1) \notin sockets[k].inbox

\* C31: when acceptOffer writes an offer_rejected notification for a driver,
\* the driver has a Rejected offer on that order, also when a createOffer for
\* the order runs between the accept's updateMany and its read of the
\* siblings; and when acceptOffer answers 200 every driver with a Rejected
\* sibling offer has an offer_rejected notification for the order.
C31_RejectedNotificationsMatch ==
    [][\A s \in Slots : \A r \in {req[s]} :
          /\ (r.kind = "acceptOffer" /\ r.pc = "notifyRejected" /\ req'[s] # r
                 /\ notifications' # notifications)
                => HasRejectedSibling(Head(r.rejected).driver_id, r.offer)
          /\ Answers(s, "acceptOffer", 200)
                => \A d \in Drivers :
                       HasRejectedSibling(d, r.offer)'
                           => CountNotif(NoId, d, r.offer.order_id, "offer_rejected")' > 0]_vars

\* C32: an offer is inserted only while its order is Pending.
C32_OfferOnlyOnPendingOrder ==
    [][\A f \in offers' \ offers :
          \E o \in OrderById(f.order_id) : o.status = "Pending"]_vars

\* C33: a driver has, for an order, at most as many offer_rejected
\* notifications and at most as many offer_accepted notifications as the
\* driver has offers on the order (one per offer and transition).
C33_OneNotificationPerTransition ==
    \A d \in Drivers, o \in 1 .. MaxOrders :
        /\ CountNotif(NoId, d, o, "offer_rejected") <= Cardinality(OffersBy(o, d))
        /\ CountNotif(NoId, d, o, "offer_accepted") <= Cardinality(OffersBy(o, d))

\* The steps of the handlers in which a notification is written.
NotifySteps == {"notifyRouter", "notifyDrivers", "notifyDriver", "notifyAccepted",
                "notifyRejected", "notify"}

\* C34: every notification a handler writes has a type of the schema's
\* enum: no request is answered 500 out of a step that writes a
\* notification (the store itself does not fail here).
C34_NotificationKindAccepted ==
    [][\A s \in Slots :
          (req[s].pc \in NotifySteps /\ req'[s].pc = "done") => req'[s].status # 500]_vars

\* C35: markAllAsRead leaves every notification of which its caller is
\* neither the user_id nor the driver_id as it was, whatever the caller's role.
C35_MarkAllOwnOnly ==
    [][\A s \in Slots : \A r \in {req'[s]} :
          (r.kind = "markAllAsRead" /\ r # req[s])
          => \A n \in BagToSet(notifications) \cup BagToSet(notifications') :
                 Stranger(r, n) => CopiesIn(n, notifications') = CopiesIn(n, notifications)]_vars

\* C36: when no request is in flight, an Active order has exactly one
\* Accepted offer.
C36_ActiveHasOneAccepted ==
    Quiet => \A o \in orders : o.status = "Active" => Cardinality(AcceptedOf(o._id)) = 1

\* The request in slot s is answered in this step, with this status, and
\* neither the store nor the published events nor any socket changes.
RefusedUnchanged(s, code) ==
    /\ req'[s].pc = "done" /\ req'[s].status = code
    /\ StoreUnchanged /\ UNCHANGED sockets

\* C37 as stated: createOrder and acceptOffer by a caller who is not a router,
\* and createOffer by a caller who is not a driver, answer 403 and change
\* neither the store nor the events.
C37_WrongRoleIs403 ==
    [][/\ \A s \in Slots, c \in OrderCallers, v \in VehicleInputs :
              (createOrder_validate(s, c, v) /\ c.role # "router") => RefusedUnchanged(s, 403)
       /\ \A s \in Slots, c \in OfferCallers, o \in OrderIdInputs, p \in Prices :
              (createOffer_findOrder(s, c, o, p) /\ c.role # "driver") => RefusedUnchanged(s, 403)
       /\ \A s \in Slots, c \in AcceptCallers, f \in OfferIdInputs :
              (acceptOffer_findOffer(s, c, f) /\ c.role # "router") => RefusedUnchanged(s, 403)]_vars

\* C37: createOrder and acceptOffer by a caller who is not a router, and
\* createOffer by a caller who is not a driver, are refused in their first
\* step and change neither the store nor the events; the answer is 403,
\* except that createOrder and createOffer answer 400 when the request body
\* fails validation, which they check before the role.
C37_WrongRoleRefused ==
    [][/\ \A s \in Slots, c \in OrderCallers, v \in VehicleInputs :
              (createOrder_validate(s, c, v) /\ c.role # "router")
              => RefusedUnchanged(s, IF v = MalformedVehicle THEN 400 ELSE 403)
       /\ \A s \in Slots, c \in OfferCallers, o \in OrderIdInputs, p \in Prices :
              (createOffer_findOrder(s, c, o, p) /\ c.role # "driver")
              => RefusedUnchanged(s, IF o = InvalidId \/ p < 0 THEN 400 ELSE 403)
       /\ \A s \in Slots, c \in AcceptCallers, f \in OfferIdInputs :
              (acceptOffer_findOffer(s, c, f) /\ c.role # "router") => RefusedUnchanged(s, 403)]_vars

\* An acceptOffer refused for the caller's role while the order has a Pending
\* offer.
C37_Witness ==
    /\ \E s \in Slots : req[s].kind = "acceptOffer" /\ req[s].status = 403 /\ req[s].msg = "role"
    /\ \E f \in offers : f.status = "Pending"

\* C38: a step that publishes an event is taken by a request that has made
\* its primary write: a createOrder whose order is in the store, a createOffer
\* whose offer is in the store, or an acceptOffer that is past its three
\* writes, with its offer no longer Pending and its order Active; so a
\* request that fails before its primary write publishes nothing.
C38_EventsFollowStore ==
    [][events' # events
       => \E s \in Slots : \A r \in {req[s]} :
              /\ req'[s] # r /\ r.wrote
              /\ r.kind = "createOrder" => OrderById(r.arg) # {}
              /\ r.kind = "createOffer" => OfferById(r.offer._id) # {}
              /\ r.kind = "acceptOffer"
                    => /\ r.pc \in {"findRejected", "notifyRejected"}
                       /\ \A g \in OfferById(r.offer._id) : g.status # "Pending"
                       /\ \A o \in OrderById(r.offer.order_id) : o.status = "Active"]_vars

\* An acceptOffer that answered 200 after rejecting a sibling: its
\* offer-accepted and offer-rejected events are published, the offer is
\* Accepted, the sibling Rejected and the order Active.
C38_Witness ==
    \E s \in Slots :
        /\ req[s].kind = "acceptOffer" /\ req[s].status = 200 /\ req[s].found # <<>>
        /\ AcceptApplied(req[s].offer)
        /\ Event("driver", req[s].offer.driver_id, "offer-accepted", req[s].offer.order_id) \in events
        /\ \E d \in Drivers : Event("driver", d, "offer-rejected", req[s].offer.order_id) \in events

\* C39: a step of a createOffer request changes no order and no offer that
\* is already in the store, and no order ever has the status Offered.
C39_CreateOfferFrame ==
    [][/\ \A s \in Slots :
              (req'[s] # req[s] /\ req'[s].kind = "createOffer")
              => orders' = orders /\ offers \subseteq offers'
       /\ \A o \in orders' : o.status # "Offered"]_vars

\* A createOffer has answered after inserting a second offer on an order
\* that is still Pending, beside the first offer, still Pending too.
C39_Witness ==
    /\ \E s \in Slots : req[s].kind = "createOffer" /\ req[s].pc = "done" /\ req[s].status = 500
    /\ \E f, g \in offers : f._id # g._id /\ f.order_id = g.order_id
                            /\ f.status = "Pending" /\ g.status = "Pending"
    /\ \A o \in orders : o.status = "Pending"

====
